---- MODULE Spec2Model ----
(***************************************************************************)
(* A model of sigmf/archive.py: the packer SigMFArchive.__init__ and the   *)
(* extractor extract().  Strings are sequences of one-character strings,   *)
(* so that endswith, "in" and concatenation are computed, not assumed.     *)
(***************************************************************************)
EXTENDS Integers, Sequences, FiniteSets, TLC

VARIABLES
    disk,        \* the files that exist: absolute name -> [blocks, pos, open]
    staging,     \* the staging directories that exist: id -> listing of files
    call,        \* the arguments of the SigMFArchive call in progress
    pc,          \* position of the packer
    selfPath,    \* self.path
    err,         \* the exception the packer raised, or "none"
    tar,         \* the TarFile the packer holds: [mode, closed, fellBack]
    idx,         \* number of recordings the for loop has started
    tmpdir,      \* the loop's tmpdir variable (an id of staging)
    log,         \* per finished call: what it was given and what it did
    opened,      \* the paths open(path, "wb") was called on
    sinkWrites,  \* the write() calls made on the sink by _get_open_fileobj
    xpc,         \* position of the extractor
    xarchive,    \* the TarFile extract holds: "none", "open" or "closed"
    members,     \* extract's members
    xidx,        \* number of members the extract loop has handled
    xdir,        \* what extractall materialised: path -> [kind, content]
    data_file,   \* extract's tracker
    metadata,    \* extract's tracker
    sigmffiles,  \* extract's result list
    xerr         \* the exception extract raised, or "none"

packVars == <<disk, staging, call, pc, selfPath, err, tar, idx, tmpdir, log,
              opened, sinkWrites>>
extractVars == <<xpc, xarchive, members, xidx, xdir, data_file, metadata,
                 sigmffiles, xerr>>
vars == <<disk, staging, call, pc, selfPath, err, tar, idx, tmpdir, log,
          opened, sinkWrites, xpc, xarchive, members, xidx, xdir, data_file,
          metadata, sigmffiles, xerr>>

----------------------------------------------------------------------------
(* Bounds of the model. *)

\* recordings per SigMFArchive call
MaxRecs == 2
\* calls per behaviour of the append specification, each call counted as
\* one more than the recordings it is given
MaxWork == 6
\* recordings per container handed to extract in the extract specification
MaxLayouts == 2

----------------------------------------------------------------------------
(* Strings. *)

NULL == <<"None">>

SIGMF_ARCHIVE_EXT == <<".", "s", "i", "g", "m", "f">>
SIGMF_METADATA_EXT == <<".", "s", "i", "g", "m", "f", "-", "m", "e", "t", "a">>
SIGMF_DATASET_EXT == <<".", "s", "i", "g", "m", "f", "-", "d", "a", "t", "a">>

\* Python's truth value of a string-or-None
Truthy(s) == s # NULL /\ s # <<>>

\* c in s, for a one-character c
Contains(s, c) == \E k \in 1..Len(s) : s[k] = c

\* s.endswith(suf)
EndsWith(s, suf) ==
    /\ Len(s) >= Len(suf)
    /\ SubSeq(s, Len(s) - Len(suf) + 1, Len(s)) = suf

\* s.rfind(c), 1-based, 0 when absent
RFind(s, c) ==
    LET hits == {k \in 1..Len(s) : s[k] = c}
    IN  IF hits = {} THEN 0 ELSE CHOOSE k \in hits : \A j \in hits : j <= k

\* os.path.splitext(p)[-1]: the extension of the last path component, where
\* leading dots of that component do not start an extension
splitext_ext(p) ==
    LET sepIndex == RFind(p, "/")
        dotIndex == RFind(p, ".")
    IN  IF /\ dotIndex > sepIndex
           /\ \E k \in (sepIndex + 1)..(dotIndex - 1) : p[k] # "."
        THEN SubSeq(p, dotIndex, Len(p))
        ELSE <<>>

\* os.path.join(a, b) for a relative b
join(a, b) == a \o <<"/">> \o b

Cwd == <<"/", "w">>

\* os.path.abspath(p), for the paths of the model (no "." or ".." components)
abspath(p) == IF Len(p) > 0 /\ p[1] = "/" THEN p ELSE join(Cwd, p)

----------------------------------------------------------------------------
(* The collaborators: SigMFFile handles, JSON, the host's files. *)

\* sigmffile.dump(mdfile, pretty=True): the text written for a metadata document
json_dump(md) == <<"json", md>>

\* whether json.load accepts the bytes of a metadata entry
json_ok(bytes) == Len(bytes) = 2 /\ bytes[1] = "json"

\* json.load of acceptable bytes
json_load(bytes) == bytes[2]

\* the bytes shutil.copy reads from a dataset file of the host
host_bytes(path) == <<"bytes-of">> \o path

\* SigMFFile(metadata=..., data_file=...)
SigMFFile(md, df) == [metadata |-> md, data_file |-> df]

----------------------------------------------------------------------------
(* _check_input and the checks it makes. *)

\* _ensure_path_has_correct_extension: the error raised and the new self.path
ensure_path_has_correct_extension(path) ==
    IF path = NULL THEN [err |-> "none", path |-> path]
    ELSE LET has_extension == Contains(path, ".")
             has_correct_extension == EndsWith(path, SIGMF_ARCHIVE_EXT)
         IN  IF has_extension /\ ~has_correct_extension
             THEN [err |-> "SigMFFileError", path |-> path]
             ELSE [err |-> "none",
                   path |-> IF has_correct_extension THEN path
                            ELSE path \o SIGMF_ARCHIVE_EXT]

\* a variant: metadata is validated before the two attributes are looked at
check_sigmffile_validate_first(sf) ==
    IF ~sf.valid THEN "SigMFValidationError"
    ELSE IF ~Truthy(sf.name) THEN "SigMFFileError"
    ELSE IF ~Truthy(sf.data_file) THEN "SigMFFileError"
    ELSE "none"

\* the body of _check_input's loop: _ensure_sigmffile_name_set, then
\* _ensure_sigmffile_data_file_set, then _validate_sigmffile_metadata
check_sigmffile(sf) ==
    IF ~Truthy(sf.name) THEN "SigMFFileError"
    ELSE IF ~Truthy(sf.data_file) THEN "SigMFFileError"
    ELSE IF ~sf.valid THEN "SigMFValidationError"
    ELSE "none"

RECURSIVE check_sigmffiles(_, _)
\* _check_input's loop over self.sigmffiles, from the k-th on
check_sigmffiles(sfs, k) ==
    IF k > Len(sfs) THEN "none"
    ELSE IF check_sigmffile(sfs[k]) # "none" THEN check_sigmffile(sfs[k])
    ELSE check_sigmffiles(sfs, k + 1)

\* _check_input: the error raised and self.path as it leaves it
check_input(path, sfs) ==
    LET p == ensure_path_has_correct_extension(path)
    IN  IF p.err # "none" THEN p
        ELSE [err |-> check_sigmffiles(sfs, 1), path |-> p.path]

----------------------------------------------------------------------------
(* Files and the tar container written into them.  A file is a sequence   *)
(* of blocks: one block per tar entry, and one for the end-of-archive      *)
(* marker TarFile.close() writes.  pos counts the blocks before the file   *)
(* position.                                                               *)

SinkName == <<"/", "t">>

EofBlock == [kind |-> "eof"]

EmptyFile == [blocks |-> <<>>, pos |-> 0, open |-> TRUE]

RECURSIVE read_entries(_, _)
\* the entries tarfile reads from block p + 1 on: up to the end-of-archive
\* marker or the end of the file
read_entries(blocks, p) ==
    IF p >= Len(blocks) \/ blocks[p + 1].kind = "eof" THEN <<>>
    ELSE <<blocks[p + 1]>> \o read_entries(blocks, p + 1)

\* TarFile.getmembers() of the container in file f, read from its start
Container(f) == read_entries(f.blocks, 0)

\* fileobj.write of one block at the file position
write_block(f, b) ==
    [f EXCEPT !.blocks = SubSeq(f.blocks, 1, f.pos) \o <<b>>
                           \o SubSeq(f.blocks, f.pos + 2, Len(f.blocks)),
              !.pos = f.pos + 1]

RECURSIVE write_blocks(_, _)
write_blocks(f, bs) ==
    IF bs = <<>> THEN f ELSE write_blocks(write_block(f, Head(bs)), Tail(bs))

\* TarFile(mode="a"): where the scan over the existing headers stops
append_offset(f) == f.pos + Len(read_entries(f.blocks, f.pos))

\* TarFile(mode="a") raises ReadError unless the scan stops at an
\* end-of-archive marker (an empty file gives "empty header")
append_ok(f) == append_offset(f) < Len(f.blocks)

\* a variant: every tarinfo gets the file mode
chmod_file_mode_only(tarinfo) == [tarinfo EXCEPT !.mode = 420]

\* the filter chmod of SigMFArchive.__init__
chmod(tarinfo) ==
    IF tarinfo.kind = "dir" THEN [tarinfo EXCEPT !.mode = 493]
    ELSE [tarinfo EXCEPT !.mode = 420]

\* the modes the host gives a staged file or directory (mkdtemp: 0700;
\* files: by the umask)
HostModes == {448, 420, 384, 436}

\* the staged metadata file: sigmffile.name + SIGMF_METADATA_EXT, dumped
staged_md(sf) ==
    [name |-> sf.name \o SIGMF_METADATA_EXT, content |-> json_dump(sf.metadata)]

\* the staged dataset file: sigmffile.name + SIGMF_DATASET_EXT, copied
staged_data(sf) ==
    [name |-> sf.name \o SIGMF_DATASET_EXT, content |-> host_bytes(sf.data_file)]

\* sigmf_archive.add(tmpdir, arcname=sigmffile.name, filter=chmod): the
\* entries written for a staging directory whose listing is `listing`
tar_add(arcname, listing, hostmode) ==
    <<chmod([kind |-> "dir", name |-> arcname, mode |-> hostmode,
             content |-> <<>>])>>
    \o [k \in 1..Len(listing) |->
          chmod([kind |-> "file", name |-> join(arcname, listing[k].name),
                 mode |-> hostmode, content |-> listing[k].content])]

\* the orders os.listdir may give a staging directory's files in
Listings(files) ==
    {l \in [1..Cardinality(files) -> files] :
        \A a, b \in 1..Cardinality(files) : a # b => l[a] # l[b]}

----------------------------------------------------------------------------
(* SigMFArchive.__init__, step by step. *)

\* the file the container is written to, by its absolute name (the name
\* TarFile.name holds)
out == IF Truthy(call.fileobj) THEN call.fileobj ELSE abspath(selfPath)

NoCall == [sigmffiles |-> <<>>, path |-> NULL, fileobj |-> NULL]
NoTar == [mode |-> "none", closed |-> TRUE, fellBack |-> FALSE]

\* what a call that ends with exception e (or "none") leaves in the log
Logged(e, p, d) ==
    Append(log, [call |-> call, err |-> e, path |-> p, disk |-> d,
                 fellBack |-> tar.fellBack])

\* an exception leaves __init__
Raise(e) ==
    /\ pc' = "done"
    /\ err' = e
    /\ log' = Logged(e, selfPath, disk)

\* SigMFArchive(sigmffiles, path, fileobj): lines 67-73
Call(inputs) ==
    /\ pc \in {"idle", "done"}
    /\ xpc = "idle"
    /\ \E c \in inputs :
         /\ call' = c
         /\ selfPath' = c.path
    /\ pc' = "check"
    /\ err' = "none"
    /\ tar' = NoTar
    /\ idx' = 0
    /\ tmpdir' = 0
    /\ UNCHANGED <<disk, staging, log, opened, sinkWrites>>
    /\ UNCHANGED extractVars

\* self._check_input(): line 75
CheckInput ==
    /\ pc = "check"
    /\ LET r == check_input(selfPath, call.sigmffiles)
       IN  /\ selfPath' = r.path
           /\ IF r.err # "none"
              THEN /\ pc' = "done"
                   /\ err' = r.err
                   /\ log' = Logged(r.err, r.path, disk)
              ELSE /\ pc' = "open"
                   /\ UNCHANGED <<err, log>>
    /\ UNCHANGED <<disk, staging, call, tar, idx, tmpdir, opened, sinkWrites>>
    /\ UNCHANGED extractVars

\* self._get_output_fileobj(): lines 78, 158-178.  `fails`: whether the
\* write to the sink, or the open of the path, may fail
GetOutputFileobj(fails) ==
    /\ pc = "open"
    /\ \E fault \in fails :
         IF Truthy(call.fileobj)
         THEN IF fault
              THEN /\ Raise("SigMFFileError")
                   /\ UNCHANGED <<disk, opened, sinkWrites>>
              ELSE /\ sinkWrites' = sinkWrites + 1
                   /\ pc' = "tar"
                   /\ UNCHANGED <<disk, opened, err, log>>
         ELSE IF fault \/ selfPath = NULL
              THEN /\ Raise("SigMFFileError")
                   /\ UNCHANGED <<disk, opened, sinkWrites>>
              ELSE /\ disk' = [n \in DOMAIN disk \cup {out} |->
                                 IF n = out THEN EmptyFile ELSE disk[n]]
                   /\ opened' = opened \cup {selfPath}
                   /\ pc' = "tar"
                   /\ UNCHANGED <<sinkWrites, err, log>>
    /\ UNCHANGED <<staging, call, selfPath, tar, idx, tmpdir>>
    /\ UNCHANGED extractVars

\* tarfile.TarFile(mode=mode, ...), and on ReadError TarFile(mode="w"):
\* lines 77, 79-87
TarOpen ==
    /\ pc = "tar"
    /\ LET mode == IF call.fileobj # NULL THEN "a" ELSE "w"
           f == disk[out]
       IN  IF mode = "a"
           THEN /\ disk' = [disk EXCEPT ![out].pos = append_offset(f)]
                /\ tar' = [mode |-> IF append_ok(f) THEN "a" ELSE "w",
                           closed |-> FALSE, fellBack |-> ~append_ok(f)]
           ELSE /\ tar' = [mode |-> "w", closed |-> FALSE, fellBack |-> FALSE]
                /\ UNCHANGED disk
    /\ pc' = "mkdtemp"
    /\ UNCHANGED <<staging, call, selfPath, err, idx, tmpdir, log, opened,
                   sinkWrites>>
    /\ UNCHANGED extractVars

\* the for statement and tempfile.mkdtemp(): lines 96-101
Mkdtemp ==
    /\ pc = "mkdtemp"
    /\ IF idx < Len(call.sigmffiles)
       THEN /\ idx' = idx + 1
            /\ tmpdir' = <<Len(log) + 1, idx + 1>>
            /\ staging' = [d \in DOMAIN staging \cup {<<Len(log) + 1, idx + 1>>} |->
                             IF d \in DOMAIN staging THEN staging[d] ELSE {}]
            /\ pc' = "dump"
       ELSE /\ pc' = "close"
            /\ UNCHANGED <<idx, tmpdir, staging>>
    /\ UNCHANGED <<disk, call, selfPath, err, tar, log, opened, sinkWrites>>
    /\ UNCHANGED extractVars

\* open(sigmf_md_path, "w") and sigmffile.dump: lines 103-104
DumpMetadata(fails) ==
    /\ pc = "dump"
    /\ \E fault \in fails :
         IF fault
         THEN /\ Raise("OSError")
              /\ UNCHANGED staging
         ELSE /\ staging' = [staging EXCEPT ![tmpdir] =
                               @ \cup {staged_md(call.sigmffiles[idx])}]
              /\ pc' = "copy"
              /\ UNCHANGED <<err, log>>
    /\ UNCHANGED <<disk, call, selfPath, tar, idx, tmpdir, opened, sinkWrites>>
    /\ UNCHANGED extractVars

\* shutil.copy(sigmffile.data_file, sigmf_data_path): line 106
CopyData(fails) ==
    /\ pc = "copy"
    /\ \E fault \in fails :
         IF fault
         THEN /\ Raise("OSError")
              /\ UNCHANGED staging
         ELSE /\ staging' = [staging EXCEPT ![tmpdir] =
                               @ \cup {staged_data(call.sigmffiles[idx])}]
              /\ pc' = "add"
              /\ UNCHANGED <<err, log>>
    /\ UNCHANGED <<disk, call, selfPath, tar, idx, tmpdir, opened, sinkWrites>>
    /\ UNCHANGED extractVars

\* sigmf_archive.add(...): line 107.  A failure leaves the entries written
\* before it in the file
TarAdd(fails) ==
    /\ pc = "add"
    /\ \E fault \in fails, listing \in Listings(staging[tmpdir]),
          hostmode \in HostModes :
         LET entries == tar_add(call.sigmffiles[idx].name, listing, hostmode)
         IN  IF fault
             THEN \E k \in 0..(Len(entries) - 1) :
                    /\ pc' = "done"
                    /\ err' = "OSError"
                    /\ disk' = [disk EXCEPT ![out] =
                                  write_blocks(@, SubSeq(entries, 1, k))]
                    /\ log' = Logged("OSError", selfPath, disk')
             ELSE /\ disk' = [disk EXCEPT ![out] = write_blocks(@, entries)]
                  /\ pc' = "rmtree"
                  /\ UNCHANGED <<err, log>>
    /\ UNCHANGED <<staging, call, selfPath, tar, idx, tmpdir, opened, sinkWrites>>
    /\ UNCHANGED extractVars

\* shutil.rmtree(tmpdir)
rmtree(d) == [e \in DOMAIN staging \ {d} |-> staging[e]]

\* shutil.rmtree(tmpdir): line 108
Rmtree ==
    /\ pc = "rmtree"
    /\ staging' = rmtree(tmpdir)
    /\ pc' = "mkdtemp"
    /\ UNCHANGED <<disk, call, selfPath, err, tar, idx, tmpdir, log, opened,
                   sinkWrites>>
    /\ UNCHANGED extractVars

\* a variant: the sink is left where the writing ended
finish_fileobj_no_seek(f) ==
    IF call.fileobj = NULL THEN [f EXCEPT !.open = FALSE] ELSE f

\* lines 111-114: close the file the packer opened, rewind a sink
finish_fileobj(f) ==
    IF call.fileobj = NULL THEN [f EXCEPT !.open = FALSE]
    ELSE [f EXCEPT !.pos = 0]

\* sigmf_archive.close() and lines 111-116
Close ==
    /\ pc = "close"
    /\ tar' = [tar EXCEPT !.closed = TRUE]
    /\ disk' = [disk EXCEPT ![out] = finish_fileobj(write_block(@, EofBlock))]
    /\ selfPath' = out
    /\ pc' = "done"
    /\ log' = Logged("none", selfPath', disk')
    /\ UNCHANGED <<staging, call, err, idx, tmpdir, opened, sinkWrites>>
    /\ UNCHANGED extractVars

----------------------------------------------------------------------------
(* extract(archive_path, dir), step by step. *)

\* the directory extract materialises into
XDir == <<"/", "e">>

RECURSIVE extractall(_, _)
\* archive.extractall(path=dir): entry by entry, a later entry replacing an
\* earlier one of the same name
extractall(ms, acc) ==
    IF ms = <<>> THEN acc
    ELSE LET m == Head(ms)
             p == join(XDir, m.name)
         IN  extractall(Tail(ms),
                 [q \in DOMAIN acc \cup {p} |->
                    IF q = p THEN [kind |-> m.kind, content |-> m.content]
                    ELSE acc[q]])

\* lines 208-213: what one member does to the two trackers.  extractfile
\* gives None for a directory, which json.load cannot read (AttributeError);
\* json.load raises a ValueError (JSONDecodeError, UnicodeDecodeError) on
\* bytes that are not UTF-8 JSON
scan_name(m, df, md) ==
    IF EndsWith(m.name, SIGMF_DATASET_EXT)
    THEN [err |-> "none", data_file |-> join(XDir, m.name), metadata |-> md]
    ELSE IF EndsWith(m.name, SIGMF_METADATA_EXT)
    THEN IF m.kind # "file"
         THEN [err |-> "AttributeError", data_file |-> df, metadata |-> md]
         ELSE IF ~json_ok(m.content)
         THEN [err |-> "ValueError", data_file |-> df, metadata |-> md]
         ELSE [err |-> "none", data_file |-> df,
               metadata |-> json_load(m.content)]
    ELSE [err |-> "none", data_file |-> df, metadata |-> md]

\* extract(archive_path): lines 193-196.  tarfile.open reads the first
\* header: a missing or empty file raises
ExtractOpen(paths) ==
    /\ xpc = "idle"
    /\ pc \in {"idle", "done"}
    /\ \E archive_path \in paths :
         IF archive_path \in DOMAIN disk /\ disk[archive_path].blocks # <<>>
         THEN /\ xarchive' = "open"
              /\ members' = Container(disk[archive_path])
              /\ xpc' = "getmembers"
              /\ xerr' = "none"
         ELSE /\ xpc' = "done"
              /\ xerr' = "ReadError"
              /\ UNCHANGED <<xarchive, members>>
    /\ UNCHANGED <<xidx, xdir, data_file, metadata, sigmffiles>>
    /\ UNCHANGED packVars

\* members = archive.getmembers(): line 197, before the try statement
GetMembers(fails) ==
    /\ xpc = "getmembers"
    /\ \E fault \in fails :
         IF fault
         THEN /\ xpc' = "done"
              /\ xerr' = "ReadError"
         ELSE /\ xpc' = "extractall"
              /\ UNCHANGED xerr
    /\ UNCHANGED <<xarchive, members, xidx, xdir, data_file, metadata,
                   sigmffiles>>
    /\ UNCHANGED packVars

\* archive.extractall(path=dir) and lines 204-205
ExtractAll(fails) ==
    /\ xpc = "extractall"
    /\ \E fault \in fails :
         IF fault
         THEN /\ xpc' = "finally"
              /\ xerr' = "OSError"
              /\ UNCHANGED xdir
         ELSE /\ xdir' = extractall(members, xdir)
              /\ xpc' = "scan"
              /\ UNCHANGED xerr
    /\ data_file' = NULL
    /\ metadata' = NULL
    /\ UNCHANGED <<xarchive, members, xidx, sigmffiles>>
    /\ UNCHANGED packVars

\* one iteration of the for statement: lines 207-219.  `fails`: whether
\* the SigMFFile constructor may raise
ScanMember(fails) ==
    /\ xpc = "scan"
    /\ xidx < Len(members)
    /\ xidx' = xidx + 1
    /\ LET r == scan_name(members[xidx + 1], data_file, metadata)
       IN  IF r.err # "none"
           THEN /\ xpc' = "finally"
                /\ xerr' = r.err
                /\ UNCHANGED <<data_file, metadata, sigmffiles>>
           ELSE IF r.data_file # NULL /\ r.metadata # NULL
           THEN \E fault \in fails :
                  IF fault
                  THEN /\ xpc' = "finally"
                       /\ xerr' = "SigMFFileError"
                       /\ data_file' = r.data_file
                       /\ metadata' = r.metadata
                       /\ UNCHANGED sigmffiles
                  ELSE /\ sigmffiles' = Append(sigmffiles,
                                           SigMFFile(r.metadata, r.data_file))
                       /\ data_file' = NULL
                       /\ metadata' = NULL
                       /\ UNCHANGED <<xpc, xerr>>
           ELSE /\ data_file' = r.data_file
                /\ metadata' = r.metadata
                /\ UNCHANGED <<xpc, xerr, sigmffiles>>
    /\ UNCHANGED <<xarchive, members, xdir>>
    /\ UNCHANGED packVars

\* the for statement ends
ScanEnd ==
    /\ xpc = "scan"
    /\ xidx = Len(members)
    /\ xpc' = "finally"
    /\ UNCHANGED <<xarchive, members, xidx, xdir, data_file, metadata,
                   sigmffiles, xerr>>
    /\ UNCHANGED packVars

\* finally: archive.close(), then return sigmffiles or re-raise
Finally ==
    /\ xpc = "finally"
    /\ xarchive' = "closed"
    /\ xpc' = "done"
    /\ UNCHANGED <<members, xidx, xdir, data_file, metadata, sigmffiles, xerr>>
    /\ UNCHANGED packVars

\* what extract returns: the list it built, unless it raised
Returned == IF xerr = "none" THEN sigmffiles ELSE <<>>

----------------------------------------------------------------------------
(* The inputs the specifications draw from. *)

SeqsUpTo(S, n) == UNION {[1..k -> S] : k \in 0..n}

NameA == <<"a">>
NameB == <<"b">>
Data1 == <<"d", "1">>
Data2 == <<"d", "2">>
Meta1 == <<"m1">>
Meta2 == <<"m2">>

\* the path arguments: absent, without a suffix, with the archive suffix, with
\* another suffix; in the working directory or in a directory named "o.d"
Paths ==
    {NULL} \cup
    {stem \o ext : stem \in {<<"x">>, <<"o", ".", "d", "/", "x">>},
                   ext \in {<<>>, SIGMF_ARCHIVE_EXT, <<".", "z", "i", "p">>}}

\* recordings of every kind: name unset, empty or set; data_file unset or
\* set; metadata valid or not
AnyRecordings ==
    [name : {NULL, <<>>, NameA, NameB}, data_file : {NULL, Data1},
     valid : BOOLEAN, metadata : {Meta1}]

\* archivable recordings, some named like a dataset or a metadata file
RoundRecordings ==
    [name : {NameA, NameB, NameA \o SIGMF_DATASET_EXT,
             NameB \o SIGMF_METADATA_EXT},
     data_file : {Data1, Data2}, valid : {TRUE}, metadata : {Meta1, Meta2}]

\* archivable recordings with plain names
PlainRecordings ==
    [name : {NameA, NameB}, data_file : {Data1}, valid : {TRUE},
     metadata : {Meta1}]

DistinctNames(sfs) ==
    \A a, b \in 1..Len(sfs) : a # b => sfs[a].name # sfs[b].name

\* one call with a path and no sink, on archivable recordings of distinct names
RoundCalls ==
    {c \in [sigmffiles : SeqsUpTo(RoundRecordings, MaxRecs) \ {<<>>},
            path : {<<"x">>}, fileobj : {NULL}] : DistinctNames(c.sigmffiles)}

\* any call
AnyCalls ==
    [sigmffiles : SeqsUpTo(AnyRecordings, MaxRecs), path : Paths,
     fileobj : {NULL, SinkName}]

\* calls on archivable recordings: to the path "x", or into the sink with
\* the path absent or "x.zip"
PlainCalls ==
    {c \in [sigmffiles : SeqsUpTo(PlainRecordings, MaxRecs) \ {<<>>},
            path : {NULL, <<"x">>, <<"x", ".", "z", "i", "p">>},
            fileobj : {NULL, SinkName}] :
        (c.fileobj = NULL) <=> (c.path = <<"x">>)}

RECURSIVE Work(_)
\* the calls of a log, each counted as one more than its recordings
Work(l) ==
    IF l = <<>> THEN 0 ELSE 1 + Len(Head(l).call.sigmffiles) + Work(Tail(l))

\* the container file handed to extract in the extract specification
ArchName == <<"/", "c">>

\* one recording as a container holds it: the directory entry before or
\* after the two files, the metadata file before or after the dataset file,
\* the metadata parseable or not
Layouts ==
    [name : {NameA, NameB, NameA \o SIGMF_DATASET_EXT,
             NameB \o SIGMF_METADATA_EXT},
     dirFirst : BOOLEAN, mdFirst : BOOLEAN, good : BOOLEAN]

LayoutDir(l) ==
    [kind |-> "dir", name |-> l.name, mode |-> 493, content |-> <<>>]
LayoutMd(l) ==
    [kind |-> "file", name |-> join(l.name, l.name \o SIGMF_METADATA_EXT),
     mode |-> 420,
     content |-> IF l.good THEN json_dump(<<"md-of">> \o l.name)
                 ELSE <<"{">>]
LayoutData(l) ==
    [kind |-> "file", name |-> join(l.name, l.name \o SIGMF_DATASET_EXT),
     mode |-> 420, content |-> <<"data-of">> \o l.name]

LayoutEntries(l) ==
    LET files == IF l.mdFirst THEN <<LayoutMd(l), LayoutData(l)>>
                 ELSE <<LayoutData(l), LayoutMd(l)>>
    IN  IF l.dirFirst THEN <<LayoutDir(l)>> \o files
        ELSE files \o <<LayoutDir(l)>>

RECURSIVE ContainerOf(_)
ContainerOf(ls) ==
    IF ls = <<>> THEN <<>> ELSE LayoutEntries(Head(ls)) \o ContainerOf(Tail(ls))

----------------------------------------------------------------------------
(* The specifications. *)

InitPack ==
    /\ staging = <<>>
    /\ call = NoCall
    /\ pc = "idle"
    /\ selfPath = NULL
    /\ err = "none"
    /\ tar = NoTar
    /\ idx = 0
    /\ tmpdir = 0
    /\ log = <<>>
    /\ opened = {}
    /\ sinkWrites = 0

InitExtract ==
    /\ xpc = "idle"
    /\ xarchive = "none"
    /\ members = <<>>
    /\ xidx = 0
    /\ xdir = <<>>
    /\ data_file = NULL
    /\ metadata = NULL
    /\ sigmffiles = <<>>
    /\ xerr = "none"

\* an empty sink, open for writing
Init ==
    /\ disk = [n \in {SinkName} |-> EmptyFile]
    /\ InitPack
    /\ InitExtract

\* a container file of any of the layouts
InitContainer ==
    /\ \E ls \in SeqsUpTo(Layouts, MaxLayouts) :
         disk = [n \in {ArchName} |->
                   [blocks |-> ContainerOf(ls) \o <<EofBlock>>, pos |-> 0,
                    open |-> FALSE]]
    /\ InitPack
    /\ InitExtract

\* the packer's steps; `fails`: whether the host's operations may fail
PackSteps(fails) ==
    \/ CheckInput
    \/ GetOutputFileobj(fails)
    \/ TarOpen
    \/ Mkdtemp
    \/ DumpMetadata(fails)
    \/ CopyData(fails)
    \/ TarAdd(fails)
    \/ Rmtree
    \/ Close

\* the extractor's steps
ExtractSteps(fails) ==
    \/ GetMembers(fails)
    \/ ExtractAll(fails)
    \/ ScanMember(fails)
    \/ ScanEnd
    \/ Finally

\* pack to a path, then extract what was packed
Next ==
    \/ Call(IF log = <<>> THEN RoundCalls ELSE {})
    \/ PackSteps({FALSE})
    \/ (pc = "done" /\ err = "none" /\ ExtractOpen({selfPath}))
    \/ ExtractSteps({FALSE})

Spec == Init /\ [][Next]_vars

\* one call of any kind, on a host whose operations may fail
NextCheck ==
    \/ Call(IF log = <<>> THEN AnyCalls ELSE {})
    \/ PackSteps(BOOLEAN)

SpecCheck == Init /\ [][NextCheck]_vars

\* successive calls on archivable recordings
NextAppend ==
    \/ Call({c \in PlainCalls :
                Work(log) + 1 + Len(c.sigmffiles) <= MaxWork})
    \/ PackSteps({FALSE})

SpecAppend == Init /\ [][NextAppend]_vars

\* extract on a container of any layout, on a host whose operations may fail
NextExtract ==
    \/ ExtractOpen({ArchName})
    \/ ExtractSteps(BOOLEAN)

SpecExtract == InitContainer /\ [][NextExtract]_vars

----------------------------------------------------------------------------
(* The claims.  The definitions below state what is claimed; they use the  *)
(* operators above only to read the state.                                 *)

Archivable(sf) == Truthy(sf.name) /\ Truthy(sf.data_file) /\ sf.valid

AllArchivable(sfs) == \A k \in 1..Len(sfs) : Archivable(sfs[k])

\* the first recording, in sequence order, that is not archivable
FirstFailing(sfs) ==
    CHOOSE k \in 1..Len(sfs) :
        /\ ~Archivable(sfs[k])
        /\ \A j \in 1..(k - 1) : Archivable(sfs[j])

\* the error of the first failing check (name, data_file, validate) of the
\* first failing recording
ExpectedError(sfs) ==
    LET sf == sfs[FirstFailing(sfs)]
    IN  IF ~Truthy(sf.name) \/ ~Truthy(sf.data_file) THEN "SigMFFileError"
        ELSE "SigMFValidationError"

\* nothing was opened, written or staged
Untouched ==
    /\ opened = {}
    /\ sinkWrites = 0
    /\ staging = <<>>
    /\ tar = NoTar
    /\ disk = [n \in {SinkName} |-> EmptyFile]

\* a path argument that contains a "." and does not end in ".sigmf"
PathRejected(path) ==
    /\ path # NULL
    /\ Contains(path, ".")
    /\ ~EndsWith(path, SIGMF_ARCHIVE_EXT)

(* C1: for every non-empty sequence R of archivable recordings with        *)
(* pairwise distinct names, extract of the container SigMFArchive(R, path) *)
(* wrote returns len(R) handles in the order of R, the i-th with the       *)
(* metadata of R[i] and the dataset file packed for R[i]; also for names   *)
(* that end in ".sigmf-data" or ".sigmf-meta".                             *)
C1_RoundTrip ==
    xpc = "done" =>
        LET R == call.sigmffiles
        IN  /\ xerr = "none"
            /\ Len(sigmffiles) = Len(R)
            /\ \A k \in 1..Len(R) :
                 LET h == sigmffiles[k]
                 IN  /\ h.metadata = R[k].metadata
                     /\ h.data_file =
                          join(XDir, join(R[k].name,
                                          R[k].name \o SIGMF_DATASET_EXT))
                     /\ h.data_file \in DOMAIN xdir
                     /\ xdir[h.data_file].kind = "file"
                     /\ xdir[h.data_file].content = host_bytes(R[k].data_file)

C3_Suffix ==
    [][(/\ pc = "check"
        /\ call.fileobj = NULL
        /\ call.path # NULL
        /\ AllArchivable(call.sigmffiles))
       => LET suffix == splitext_ext(call.path)
          IN  IF suffix # <<>> /\ suffix # SIGMF_ARCHIVE_EXT
              THEN pc' = "done" /\ err' = "SigMFFileError"
              ELSE /\ pc' = "open"
                   /\ selfPath' = IF suffix = <<>>
                                  THEN call.path \o SIGMF_ARCHIVE_EXT
                                  ELSE call.path]_vars

(* C9: during a pack at most one staging directory exists at any time, and *)
(* when the call has ended, by success or by an exception, none remains.   *)
C9_Staging ==
    /\ Cardinality(DOMAIN staging) <= 1
    /\ pc = "done" => staging = <<>>

----------------------------------------------------------------------------
(* Claims about successive calls. *)

\* the sink as call k of the log found it
SinkBefore(k) == IF k = 1 THEN EmptyFile ELSE log[k - 1].disk[SinkName]

SinkCall(e) == e.call.fileobj = SinkName

RECURSIVE SinkPacked(_)
\* the recordings the successful calls of a log packed into the sink
SinkPacked(l) ==
    IF l = <<>> THEN <<>>
    ELSE (IF SinkCall(Head(l)) /\ Head(l).err = "none"
          THEN Head(l).call.sigmffiles ELSE <<>>) \o SinkPacked(Tail(l))

\* the file the path "x" resolves to
PathFile == abspath(<<"x">> \o SIGMF_ARCHIVE_EXT)

RECURSIVE PathPacked(_)
\* the recordings the last successful call with a path packed
PathPacked(l) ==
    IF l = <<>> THEN <<>>
    ELSE LET e == l[Len(l)]
         IN  IF ~SinkCall(e) /\ e.err = "none" THEN e.call.sigmffiles
             ELSE PathPacked(SubSeq(l, 1, Len(l) - 1))

MdEntryName(n) == join(n, n \o SIGMF_METADATA_EXT)
DataEntryName(n) == join(n, n \o SIGMF_DATASET_EXT)

\* the entries of a container of a kind and a name
Entries(c, kind, name) ==
    {i \in 1..Len(c) : c[i].kind = kind /\ c[i].name = name}

(* C4: after successful calls that pass the same sink, starting from an    *)
(* empty sink, (a) each call leaves the sink open and at offset 0, (b) the *)
(* container in the sink holds the entries of all the calls in call order, *)
(* three per recording, a directory and two files, those of earlier calls  *)
(* unchanged; the first call falls back from append mode to a fresh        *)
(* container.                                                              *)
C4_Append ==
    /\ \A k \in 1..Len(log) :
         (SinkCall(log[k]) /\ log[k].err = "none") =>
            LET R == log[k].call.sigmffiles
                before == Container(SinkBefore(k))
                after == log[k].disk[SinkName]
                c == Container(after)
            IN  /\ after.open
                /\ after.pos = 0
                /\ Len(c) = Len(before) + 3 * Len(R)
                /\ SubSeq(c, 1, Len(before)) = before
                /\ \A j \in 1..Len(R) :
                     /\ c[Len(before) + 3 * j - 2].kind = "dir"
                     /\ c[Len(before) + 3 * j - 2].name = R[j].name
                     /\ c[Len(before) + 3 * j - 1].kind = "file"
                     /\ c[Len(before) + 3 * j].kind = "file"
                /\ log[k].fellBack = (SinkBefore(k).blocks = <<>>)
    /\ pc \in {"idle", "done"} =>
         Len(Container(disk[SinkName])) = 3 * Len(SinkPacked(log))

\* two successful calls have packed into the sink, six entries in all
C4_Witness ==
    /\ pc = "done"
    /\ Len(log) = 2
    /\ \A k \in 1..2 : SinkCall(log[k]) /\ log[k].err = "none"
    /\ log[1].fellBack
    /\ ~log[2].fellBack
    /\ Len(Container(disk[SinkName])) = 6

\* every entry is a directory of mode 0755 named after a recording of R, or
\* a file of mode 0644 named as a metadata or dataset file of one
ModesAndNames(c, R) ==
    \A i \in 1..Len(c) :
        \/ /\ c[i].kind = "dir"
           /\ c[i].mode = 493
           /\ \E j \in 1..Len(R) : c[i].name = R[j].name
        \/ /\ c[i].kind = "file"
           /\ c[i].mode = 420
           /\ \E j \in 1..Len(R) :
                c[i].name \in {MdEntryName(R[j].name), DataEntryName(R[j].name)}

\* as claimed: per recording name exactly one directory entry, one metadata
\* file and one dataset file
LayoutOriginal(c, R) ==
    /\ ModesAndNames(c, R)
    /\ \A j \in 1..Len(R) :
         /\ Cardinality(Entries(c, "dir", R[j].name)) = 1
         /\ Cardinality(Entries(c, "file", MdEntryName(R[j].name))) = 1
         /\ Cardinality(Entries(c, "file", DataEntryName(R[j].name))) = 1

\* amended: every directory entry is followed directly by its metadata file
\* and its dataset file, in either order, and per recording name there are as
\* many directory entries as recordings of that name
LayoutAmended(c, R) ==
    /\ ModesAndNames(c, R)
    /\ Len(c) = 3 * Len(R)
    /\ \A i \in 1..Len(c) :
         c[i].kind = "dir" =>
            /\ i + 2 <= Len(c)
            /\ c[i + 1].kind = "file"
            /\ c[i + 2].kind = "file"
            /\ {c[i + 1].name, c[i + 2].name} =
                 {MdEntryName(c[i].name), DataEntryName(c[i].name)}
    /\ \A j \in 1..Len(R) :
         Cardinality(Entries(c, "dir", R[j].name)) =
            Cardinality({k \in 1..Len(R) : R[k].name = R[j].name})

C6_SinkPrecedence ==
    \A j, k \in 1..Len(log) :
        (/\ j < k
         /\ SinkCall(log[j])
         /\ SinkCall(log[k])
         /\ log[j].call.sigmffiles = log[k].call.sigmffiles
         /\ SinkBefore(j) = SinkBefore(k))
        => /\ log[j].err = log[k].err
           /\ log[j].disk[SinkName] = log[k].disk[SinkName]
           /\ log[j].err = "none" =>
                log[j].path = SinkName /\ log[k].path = SinkName

----------------------------------------------------------------------------
(* Claims about extract on a container of any layout. *)

\* the exceptions that come from the host's operations failing
HostErrors == {"ReadError", "OSError", "SigMFFileError"}

\* the container extract was given
Given == Container(disk[ArchName])

MdEntries(c) ==
    {i \in 1..Len(c) :
        c[i].kind = "file" /\ EndsWith(c[i].name, SIGMF_METADATA_EXT)}

DataEntries(c) ==
    {i \in 1..Len(c) :
        c[i].kind = "file" /\ EndsWith(c[i].name, SIGMF_DATASET_EXT)}

\* the directory part of an entry name
dirname(n) == SubSeq(n, 1, RFind(n, "/") - 1)

\* no directory of the container is named like a metadata or dataset file
PlainDirs(c) ==
    \A i \in 1..Len(c) :
        c[i].kind = "dir" =>
            /\ ~EndsWith(c[i].name, SIGMF_METADATA_EXT)
            /\ ~EndsWith(c[i].name, SIGMF_DATASET_EXT)

(* C7: when the bytes of some ".sigmf-meta" entry are not UTF-8 JSON,      *)
(* extract fails with the library's format error and returns no handles.   *)
(* Stated for containers whose directories have plain names, and for runs  *)
(* in which the host's operations succeed.                                 *)
C7_Malformed ==
    (/\ xpc = "done"
     /\ xerr \notin HostErrors
     /\ PlainDirs(Given)
     /\ \E i \in MdEntries(Given) : ~json_ok(Given[i].content))
    => xerr = "SigMFFormatError" /\ Returned = <<>>

(* C8: once extract has opened the container, the container is closed      *)
(* when extract returns or raises, wherever the failure occurs.            *)
C8_Closed ==
    (xpc = "done" /\ xarchive # "none") => xarchive = "closed"

(* C10: for an entry list in which each recording's metadata and dataset   *)
(* file entries are adjacent, directory entries anywhere, every handle     *)
(* pairs a metadata file and a dataset file of the same recording          *)
(* directory, both regular files; each file entry serves at most one       *)
(* handle; and there are as many handles as recordings.  Stated for        *)
(* parseable metadata and for runs in which the host's operations succeed. *)
C10_Pairing ==
    (/\ xpc = "done"
     /\ xerr \notin HostErrors
     /\ \A i \in MdEntries(Given) : json_ok(Given[i].content))
    => /\ xerr = "none"
       /\ Len(sigmffiles) = Cardinality(MdEntries(Given))
       /\ \A k \in 1..Len(sigmffiles) :
            /\ \E i \in MdEntries(Given), j \in DataEntries(Given) :
                 /\ sigmffiles[k].metadata = json_load(Given[i].content)
                 /\ sigmffiles[k].data_file = join(XDir, Given[j].name)
                 /\ dirname(Given[i].name) = dirname(Given[j].name)
            /\ Cardinality({h \in 1..Len(sigmffiles) :
                              sigmffiles[h].data_file = sigmffiles[k].data_file})
                 <= Cardinality({j \in DataEntries(Given) :
                              join(XDir, Given[j].name) = sigmffiles[k].data_file})

====
